---- MODULE Spec2Model ----
(***************************************************************************)
(* Model of the RTSP camera driver (src/src/main.rs): configuration        *)
(* loading, one reader per camera feeding a tokio watch channel, the       *)
(* SelectAll merge of the WatchStreams and the serial publish loop.        *)
(*                                                                         *)
(* Strings that the program assembles are sequences of tokens; an          *)
(* Option<T> is a sequence of length 0 (None) or 1 (Some).  Rust indexes   *)
(* from 0, the model from 1.                                               *)
(***************************************************************************)
EXTENDS Integers, Sequences, FiniteSets, TLC

\* ------------------------------------------------------------------ bounds
\* longest comma-separated list offered in a setting
MaxLen == 3
\* most cameras of an accepted configuration
MaxCams == 2
\* decoder events handled by all readers together
MaxEvents == 3

Cams == 1..MaxLen

VARIABLES
    env,        \* the six settings: <<>> when unset, else the comma-split tokens
    pcMain,     \* position of main
    config,     \* the CameraConfig main holds (lists empty before the load)
    mainErr,    \* Option of the error main returned
    idx,        \* loop variable of main's spawn loop (next camera, 1-based)
    readerArgs, \* per camera: Option of the arguments of spawn_ffmpeg_reader
    pcReader,   \* per camera: position of the reader
    launched,   \* per camera: the ffmpeg child process was spawned
    chan,       \* per camera: the watch channel's shared value and version
    txAlive,    \* per camera: the Sender exists
    rxAlive,    \* per camera: the Receiver exists
    rxSeen,     \* per camera: the version the Receiver has marked seen
    stream,     \* per camera: state of the WatchStream inside SelectAll
    nEvents,    \* decoder events handled by all readers together
    inflight,   \* Option of the frame whose publish_async has not returned
    lastResult, \* what the publish_async that returned last gave ("none" at first)
    submitted,  \* history: frames handed to publish_async, in order
    written,    \* history: frames a reader's send accepted
    sawDone,    \* history: per camera, the loop has handled a Done event
    lastEvent   \* history: Option of the event the latest step handled, with
                \* its camera (None when the latest step handled no event)

vars == <<env, pcMain, config, mainErr, idx, readerArgs, pcReader, launched,
          chan, txAlive, rxAlive, rxSeen, stream, nEvents, inflight, lastResult,
          submitted,
          written, sawDone, lastEvent>>

mainVars == <<env, pcMain, config, mainErr, idx>>
sinkVars == <<inflight, lastResult, submitted>>

\* ------------------------------------------------------- helper operators
None == <<>>
Some(x) == <<x>>

Max(S) == CHOOSE m \in S : \A n \in S : n <= m

RECURSIVE SeqAll(_, _)
SeqAll(s, v) == IF s = <<>> THEN TRUE ELSE Head(s) = v /\ SeqAll(Tail(s), v)

RECURSIVE SeqAny(_, _)
SeqAny(s, v) == IF s = <<>> THEN FALSE ELSE Head(s) = v \/ SeqAny(Tail(s), v)

\* ----------------------------------------------------------- Config Loader
FieldNames == <<"CAMERA_USERNAME", "CAMERA_PASSWORD", "CAMERA_IP",
                "CAMERA_PORT", "CAMERA_URI_SUFFIX", "STREAM_INDEX">>

\* decimal numerals the settings use, with their u32 value
Numerals == {"0", "1", "554", "8554"}
NumeralValue(t) ==
    CASE t = "0" -> 0 [] t = "1" -> 1 [] t = "554" -> 554 [] t = "8554" -> 8554

\* Display of a u32 inside format!
NumeralOf(n) ==
    CASE n = 0 -> "0" [] n = 1 -> "1" [] n = 554 -> "554" [] n = 8554 -> "8554"

\* parse_csv::<String>: every token parses
ParseCsvString(tokens) == [ok |-> TRUE, values |-> tokens]

\* parse_csv::<u32>: fails on the first token that is no numeral
ParseCsvU32(tokens) ==
    IF \A i \in 1..Len(tokens) : tokens[i] \in Numerals
    THEN [ok |-> TRUE, values |-> [i \in 1..Len(tokens) |-> NumeralValue(tokens[i])]]
    ELSE [ok |-> FALSE, values |-> <<>>]

\* get_config_value(..).unwrap_or_default() / unwrap_or_else(default)
OrDefault(setting, default) == IF setting = <<>> THEN <<default>> ELSE setting

\* line 174, mutated: any() instead of all()
LengthsValidAny(lens, expected) == SeqAny(lens, expected)

\* line 174, mutated: a list of one entry is accepted next to longer ones
LengthsValidBroadcast(lens, expected) ==
    \A i \in 1..Len(lens) : lens[i] = expected \/ lens[i] = 1

\* line 174: config_fields.iter().all(|&(_, l)| l == expected)
LengthsValid(lens, expected) == SeqAll(lens, expected)

\* lines 175-179: "<name>: <len>" for each of the six fields, in order
LengthDetails(lens) == [i \in 1..Len(lens) |-> <<FieldNames[i], lens[i]>>]

EmptyConfig ==
    [username |-> <<>>, password |-> <<>>, ip |-> <<>>, port |-> <<>>,
     uri_suffix |-> <<>>, stream_index |-> <<>>]

\* load_camera_config: Ok(CameraConfig) or the first error met
LoadCameraConfig(e) ==
    LET usernames == ParseCsvString(OrDefault(e.username, ""))
        passwords == ParseCsvString(OrDefault(e.password, ""))
        ips == ParseCsvString(e.ip)
        ports == ParseCsvU32(OrDefault(e.port, "554"))
        uri_suffixes == ParseCsvString(OrDefault(e.uri_suffix, ""))
        stream_indices == ParseCsvU32(OrDefault(e.stream_index, "0"))
        lens == <<Len(usernames.values), Len(passwords.values), Len(ips.values),
                  Len(ports.values), Len(uri_suffixes.values),
                  Len(stream_indices.values)>>
        expected == Max({lens[i] : i \in 1..6})
    IN  IF e.ip = <<>>
        THEN [ok |-> FALSE, config |-> EmptyConfig,
              err |-> [kind |-> "required", field |-> "CAMERA_IP",
                       details |-> <<>>, expected |-> 0]]
        ELSE IF ~ports.ok
        THEN [ok |-> FALSE, config |-> EmptyConfig,
              err |-> [kind |-> "invalid", field |-> "CAMERA_PORT",
                       details |-> <<>>, expected |-> 0]]
        ELSE IF ~stream_indices.ok
        THEN [ok |-> FALSE, config |-> EmptyConfig,
              err |-> [kind |-> "invalid", field |-> "STREAM_INDEX",
                       details |-> <<>>, expected |-> 0]]
        ELSE IF ~LengthsValid(lens, expected)
        THEN [ok |-> FALSE, config |-> EmptyConfig,
              err |-> [kind |-> "lengths", field |-> "",
                       details |-> LengthDetails(lens), expected |-> expected]]
        ELSE [ok |-> TRUE,
              config |-> [username |-> usernames.values,
                          password |-> passwords.values,
                          ip |-> ips.values,
                          port |-> ports.values,
                          uri_suffix |-> uri_suffixes.values,
                          stream_index |-> stream_indices.values],
              err |-> [kind |-> "", field |-> "", details |-> <<>>, expected |-> 0]]

\* --------------------------------------------------------- URL/Path Builder
\* lines 211-222: the "user:pass@" part, omitted pieces left out
UserInfo(usernames, passwords, i) ==
    LET user == IF i <= Len(usernames) /\ usernames[i] # "" THEN Some(usernames[i]) ELSE None
        pass == IF i <= Len(passwords) /\ passwords[i] # "" THEN Some(passwords[i]) ELSE None
    IN  IF user # None /\ pass # None THEN <<user[1], ":", pass[1], "@">>
        ELSE IF user # None THEN <<user[1], "@">>
        ELSE <<>>

\* lines 224-230: format!("rtsp://{}{host}:{port}/{path}", ..)
FormatRtspUrl(userinfo, host, port, path) ==
    <<"rtsp://">> \o userinfo \o <<host, ":", NumeralOf(port), "/", path>>

\* position of the first token equal to t, 0 when there is none
RECURSIVE IndexOf(_, _, _)
IndexOf(s, t, from) ==
    IF from > Len(s) THEN 0
    ELSE IF s[from] = t THEN from
    ELSE IndexOf(s, t, from + 1)

\* str::trim_start_matches('/') on the token form of a path
RECURSIVE TrimStartSlashes(_)
TrimStartSlashes(s) ==
    IF s # <<>> /\ Head(s) = "/" THEN TrimStartSlashes(Tail(s)) ELSE s

\* Url::parse as far as format_entity_path reads it: host_str() and path().
\* Parsing fails without a scheme, with an empty host before a port, with a
\* port that is no number.
UrlParse(url) ==
    LET at == IndexOf(url, "@", 2)
        hostAt == IF at = 0 THEN 2 ELSE at + 1
        slashAt == IndexOf(url, "/", hostAt)
        authority == IF slashAt = 0 THEN SubSeq(url, hostAt, Len(url))
                     ELSE SubSeq(url, hostAt, slashAt - 1)
        path == IF slashAt = 0 THEN <<>> ELSE SubSeq(url, slashAt, Len(url))
        portOk == Len(authority) = 1
                  \/ (Len(authority) = 3 /\ authority[2] = ":"
                      /\ authority[3] \in Numerals)
    IN  IF url = <<>> \/ Head(url) # "rtsp://" \/ authority = <<>>
           \/ authority[1] = "" \/ authority[1] = ":" \/ ~portOk
        THEN [ok |-> FALSE, host |-> "", path |-> <<>>]
        ELSE [ok |-> TRUE, host |-> authority[1], path |-> path]

\* format_entity_path: "/camera/<ip>/<path>" or "/camera/unknown"
FormatEntityPath(rtsp_url) ==
    LET parsed == UrlParse(rtsp_url)
    IN  IF parsed.ok
        THEN <<"/camera/", parsed.host, "/">> \o TrimStartSlashes(parsed.path)
        ELSE <<"/camera/unknown">>

\* ------------------------------------------------------------ watch channel
\* watch::channel(None): the slot and its version
WatchChannel == [value |-> None, version |-> 0]

\* a send that fills the slot once and never replaces what it holds
WatchSendKeepFirst(ch, v) ==
    [value |-> IF ch.value = None THEN Some(v) ELSE ch.value,
     version |-> ch.version + 1]

\* watch::Sender::send with a receiver alive: replace the value, bump the version
WatchSend(ch, v) == [value |-> Some(v), version |-> ch.version + 1]

\* a poll that reports a change every time
MaybeChangedAlways(version, closed, seen) == "ok"

\* a poll that gives up as soon as there is nothing new, closed or not
MaybeChangedOrEnd(version, closed, seen) ==
    IF version # seen THEN "ok" ELSE "err"

\* a poll that never reports the closed channel
MaybeChangedNeverClosed(version, closed, seen) ==
    IF version # seen THEN "ok" ELSE "pending"

\* a poll that looks at the closed flag before the version
MaybeChangedClosedFirst(version, closed, seen) ==
    IF closed THEN "err"
    ELSE IF version # seen THEN "ok"
    ELSE "pending"

\* watch::Receiver::changed as WatchStream polls it: an unseen version first,
\* then the closed flag, else pending
MaybeChanged(version, closed, seen) ==
    IF version # seen THEN "ok"
    ELSE IF closed THEN "err"
    ELSE "pending"

\* a plain borrow(): the seen version is left as it was
BorrowKeepSeen(version, seen) == seen

\* watch::Receiver::borrow_and_update: the version marked seen by the read
BorrowAndUpdate(version, seen) == version

\* ------------------------------------------------------------ Camera Reader
EventKinds == {"Parsed", "Log", "LogEOF", "Error", "Progress", "OutputFrame",
               "OutputChunk", "Done"}

\* output_index tags a decoded frame can carry
OutputIndices == {0, 1}

\* FfmpegEvent values: output_index is read for OutputFrame only
Events ==
    [kind : EventKinds \ {"OutputFrame"}, output_index : {0}]
    \cup [kind : {"OutputFrame"}, output_index : OutputIndices]

\* line 93, mutated: the index test is missing
AcceptsFrameAll(output_index, stream_index) == TRUE

\* line 93: a frame passes unless frame.output_index != stream_index
AcceptsFrame(output_index, stream_index) == output_index = stream_index

\* lines 127-129, mutated: Done leaves the loop
BreaksLoopOnDone(kind) == kind = "Done"

\* lines 86-88, mutated: an explicit error event leaves the loop
BreaksLoopOnError(kind) == kind = "Error"

\* lines 56-91 and 124-129: no arm other than OutputFrame leaves the loop
BreaksLoop(kind) == FALSE

\* the events that are only printed: lines 56-91 and 124-126
Diagnostics == {"Parsed", "Log", "LogEOF", "Error", "Progress", "OutputChunk"}

\* line 119, mutated: a send that waits until the previous value was read
SendReadyWhenRead(version, seen) == version = seen

\* line 119: watch::Sender::send is synchronous and never waits for the
\* receiver, whatever version the receiver has seen
SendReady(version, seen) == TRUE

\* line 119, mutated: the closed channel is looked at on every event
SendFailsOrClosed(kind, accepted, receivers) == ~receivers

\* line 119: send is reached by an accepted OutputFrame only, and is_err()
\* when no Receiver is left
SendFails(kind, accepted, receivers) ==
    kind = "OutputFrame" /\ accepted /\ ~receivers

\* line 51, mutated: the panic takes the process down (panic = "abort")
LaunchPanicAbortsProcess == TRUE

\* lines 40-51: the panic of expect() stays inside the blocking task, whose
\* JoinHandle nobody awaits
LaunchPanicAborts == FALSE

\* lines 108-113, mutated: only the reader's first frame is stamped with its
\* entity path
MakeImageStampFirst(c, entity_path, output_index, seq) ==
    [seq |-> seq,
     entity_path |-> IF seq = 1 THEN entity_path ELSE <<"/camera/unknown">>,
     cam |-> c, output_index |-> output_index]

\* lines 106-117: the ImageRgb888 built from a decoded frame.  seq, the
\* ordinal of the frame among those the reader has sent, stands for the
\* timestamp and the pixel data; cam and output_index for the event the
\* width, height and data are copied from
MakeImage(c, entity_path, output_index, seq) ==
    [seq |-> seq, entity_path |-> entity_path, cam |-> c,
     output_index |-> output_index]

\* ImageRgb888::default()
EmptyImage == [seq |-> 0, entity_path |-> <<>>, cam |-> 0, output_index |-> 0]

\* ------------------------------------------------------------ Fan-In Merger
\* line 247, mutated: map(unwrap_or_default) lets the empty slot through
MapUnwrapOrDefault(maybe_image) ==
    IF maybe_image = None THEN Some(EmptyImage) ELSE maybe_image

\* line 247, mutated: the filter lets nothing through
FilterMapDropAll(maybe_image) == None

\* line 247: filter_map(|maybe_image| async move { maybe_image }): the elements
\* that reach for_each
FilterMap(maybe_image) == maybe_image

\* lines 248-256, mutated: for_each_concurrent, the next element is taken
\* while a publish is pending
TakesNextConcurrently(pc) == pc \in {"merge", "publishing"}

\* lines 248-256: for_each awaits the closure's future before it asks the
\* stream for the next element
TakesNext(pc) == pc = "merge"

\* lines 251-253, mutated: the error is propagated out of the loop
AfterPublishPropagate(result) == IF result = "err" THEN "exit_err" ELSE "merge"

\* lines 251-253: the error is printed and for_each asks for the next element
AfterPublish(result) == "merge"

\* ------------------------------------------------------------------- inputs
\* the values a setting lists, camera by camera
UsernameTokens == <<"admin", "", "viewer", "admin", "">>
PasswordTokens == <<"pw1", "pw2", "", "pw4", "pw5">>
IpTokens == <<"10.0.0.1", "10.0.0.2", "10.0.0.3", "10.0.0.4", "10.0.0.5">>
PortTokens == <<"554", "8554", "554", "8554", "554">>
UriSuffixTokens == <<"stream1", "", "stream3", "stream4", "stream5">>
StreamIndexTokens == <<"0", "1", "0", "1", "0">>

\* a setting is unset or lists 1..MaxLen values
Settings(tokens) == {<<>>} \cup {SubSeq(tokens, 1, n) : n \in 1..MaxLen}

Envs ==
    [username : Settings(UsernameTokens),
     password : Settings(PasswordTokens),
     ip : Settings(IpTokens),
     port : Settings(PortTokens) \cup {<<"554", "rtsp">>},
     uri_suffix : Settings(UriSuffixTokens),
     stream_index : Settings(StreamIndexTokens)]

\* ---------------------------------------------------------------- the state
Init ==
    /\ env \in {e \in Envs : LoadCameraConfig(e).ok
                                => Len(LoadCameraConfig(e).config.ip) <= MaxCams}
    /\ pcMain = "load"
    /\ config = EmptyConfig
    /\ mainErr = None
    /\ idx = 1
    /\ readerArgs = [c \in Cams |-> None]
    /\ pcReader = [c \in Cams |-> "none"]
    /\ launched = [c \in Cams |-> FALSE]
    /\ chan = [c \in Cams |-> WatchChannel]
    /\ txAlive = [c \in Cams |-> FALSE]
    /\ rxAlive = [c \in Cams |-> FALSE]
    /\ rxSeen = [c \in Cams |-> 0]
    /\ stream = [c \in Cams |-> "none"]
    /\ nEvents = 0
    /\ inflight = None
    /\ lastResult = "none"
    /\ submitted = <<>>
    /\ written = {}
    /\ sawDone = [c \in Cams |-> FALSE]
    /\ lastEvent = None

readerVars == <<readerArgs, pcReader, launched, chan, txAlive, nEvents, written,
                sawDone>>
mergeVars == <<rxAlive, rxSeen, stream>>

\* --------------------------------------------------------------------- main
\* line 201: let config = load_camera_config()?;
MainLoadConfig ==
    /\ pcMain = "load"
    /\ lastEvent' = None
    /\ LET r == LoadCameraConfig(env)
       IN  /\ config' = r.config
           /\ mainErr' = IF r.ok THEN None ELSE Some(r.err)
           /\ pcMain' = IF r.ok THEN "publisher" ELSE "exit_err"
    /\ UNCHANGED <<env, idx, readerVars, mergeVars, sinkVars>>

\* lines 203-205: the publisher is resolved, or expect() panics
MainGetPublisher ==
    /\ pcMain = "publisher"
    /\ lastEvent' = None
    /\ \E ok \in BOOLEAN : pcMain' = IF ok THEN "spawn" ELSE "panicked"
    /\ UNCHANGED <<env, config, mainErr, idx, readerVars, mergeVars, sinkVars>>

\* lines 209-237: one turn of the loop.  config.username/password are read with
\* get(), the other lists with [idx], which panics past the end of a list
MainSpawnReader ==
    /\ pcMain = "spawn"
    /\ lastEvent' = None
    /\ idx <= Len(config.ip)
    /\ IF idx > Len(config.port) \/ idx > Len(config.uri_suffix)
          \/ idx > Len(config.stream_index)
       THEN /\ pcMain' = "panicked"
            /\ rxAlive' = [c \in Cams |-> FALSE]
            /\ UNCHANGED <<idx, readerArgs, pcReader, chan, txAlive, rxSeen>>
       ELSE LET rtsp_url == FormatRtspUrl(
                                UserInfo(config.username, config.password, idx),
                                config.ip[idx], config.port[idx],
                                config.uri_suffix[idx])
            IN  /\ chan' = [chan EXCEPT ![idx] = WatchChannel]
                /\ txAlive' = [txAlive EXCEPT ![idx] = TRUE]
                /\ rxAlive' = [rxAlive EXCEPT ![idx] = TRUE]
                /\ rxSeen' = [rxSeen EXCEPT ![idx] = 0]
                /\ readerArgs' = [readerArgs EXCEPT ![idx] =
                        Some([rtsp_url |-> rtsp_url,
                              stream_index |-> config.stream_index[idx],
                              camera_idx |-> idx])]
                /\ pcReader' = [pcReader EXCEPT ![idx] = "spawned"]
                /\ idx' = idx + 1
                /\ UNCHANGED pcMain
    /\ UNCHANGED <<env, config, mainErr, launched, nEvents, written, sawDone,
                   stream, sinkVars>>

\* lines 240-243: every receiver becomes a WatchStream inside SelectAll
MainSelectAll ==
    /\ pcMain = "spawn"
    /\ lastEvent' = None
    /\ idx > Len(config.ip)
    /\ stream' = [c \in Cams |-> IF rxAlive[c] THEN "init" ELSE "none"]
    /\ pcMain' = "merge"
    /\ UNCHANGED <<env, config, mainErr, idx, readerVars, rxAlive, rxSeen, sinkVars>>

\* ------------------------------------------------------------ reader actions
\* the reader's loop is over: the closure returns and drops the Sender
ReaderStops(c, pc) ==
    /\ pcReader' = [pcReader EXCEPT ![c] = pc]
    /\ txAlive' = [txAlive EXCEPT ![c] = FALSE]

\* lines 38-53: the task spawned by main starts the blocking closure, which
\* launches ffmpeg (expect() panics when that fails) and opens its event
\* iterator (nothing is read when that fails)
ReaderLaunch(c) ==
    /\ pcReader[c] = "spawned"
    /\ lastEvent' = None
    /\ pcMain \in {"spawn", "merge", "publishing"}
    /\ \E outcome \in {"ok", "spawn_failed", "iter_failed"} :
         CASE outcome = "ok" ->
                /\ pcReader' = [pcReader EXCEPT ![c] = "running"]
                /\ launched' = [launched EXCEPT ![c] = TRUE]
                /\ UNCHANGED <<txAlive, pcMain, rxAlive>>
           [] outcome = "iter_failed" ->
                /\ ReaderStops(c, "exited")
                /\ launched' = [launched EXCEPT ![c] = TRUE]
                /\ UNCHANGED <<pcMain, rxAlive>>
           [] outcome = "spawn_failed" ->
                IF LaunchPanicAborts
                THEN /\ pcMain' = "aborted"
                     /\ pcReader' = [d \in Cams |->
                            IF d = c THEN "panicked"
                            ELSE IF pcReader[d] \in {"spawned", "running"}
                            THEN "killed" ELSE pcReader[d]]
                     /\ txAlive' = [d \in Cams |-> FALSE]
                     /\ rxAlive' = [d \in Cams |-> FALSE]
                     /\ UNCHANGED launched
                ELSE /\ ReaderStops(c, "panicked")
                     /\ UNCHANGED <<launched, pcMain, rxAlive>>
    /\ UNCHANGED <<env, config, mainErr, idx, readerArgs, chan, nEvents, written,
                   sawDone, rxSeen, stream, sinkVars>>

\* lines 54-131: what one turn of `for event in iter` on `event` waits for.
\* The reader is inside its loop (and the model's event budget is not used
\* up); the only call of the turn that touches the channel is send (line 119)
ReaderEventReady(c, event) ==
    /\ pcReader[c] = "running"
    /\ nEvents < MaxEvents
    /\ LET accepted == event.kind = "OutputFrame"
                       /\ AcceptsFrame(event.output_index,
                                       readerArgs[c][1].stream_index)
       IN  (accepted /\ ~SendFails(event.kind, accepted, rxAlive[c]))
           => SendReady(chan[c].version, rxSeen[c])

\* lines 54-131: one turn of `for event in iter`
ReaderEvent(c, event) ==
    /\ ReaderEventReady(c, event)
    /\ nEvents' = nEvents + 1
    /\ sawDone' = [sawDone EXCEPT ![c] = @ \/ event.kind = "Done"]
    /\ lastEvent' = Some([cam |-> c, kind |-> event.kind,
                          output_index |-> event.output_index,
                          after_diagnostic |->
                              /\ lastEvent # None
                              /\ lastEvent[1].cam = c
                              /\ lastEvent[1].kind \in Diagnostics])
    /\ LET args == readerArgs[c][1]
           accepted == event.kind = "OutputFrame"
                       /\ AcceptsFrame(event.output_index, args.stream_index)
           rgb_image == MakeImage(c, FormatEntityPath(args.rtsp_url),
                                  event.output_index, chan[c].version + 1)
       IN  IF SendFails(event.kind, accepted, rxAlive[c])
                \/ (event.kind # "OutputFrame" /\ BreaksLoop(event.kind))
           THEN /\ ReaderStops(c, "exited")
                /\ UNCHANGED <<chan, written>>
           ELSE IF accepted
           THEN /\ chan' = [chan EXCEPT ![c] = WatchSend(@, rgb_image)]
                /\ written' = written \cup {rgb_image}
                /\ UNCHANGED <<pcReader, txAlive>>
           ELSE UNCHANGED <<chan, written, pcReader, txAlive>>
    /\ UNCHANGED <<mainVars, readerArgs, launched, mergeVars, sinkVars>>

\* line 54: the iterator is exhausted, the loop and the closure end
ReaderIterEnd(c) ==
    /\ pcReader[c] = "running"
    /\ lastEvent' = None
    /\ ReaderStops(c, "exited")
    /\ UNCHANGED <<mainVars, readerArgs, launched, chan, nEvents, written, sawDone,
                   mergeVars, sinkVars>>

\* ------------------------------------------------------- merge and publish
\* what polling camera c's WatchStream gives: WatchStream::new hands out the
\* current value at its first poll, later polls wait on changed()
StreamPoll(c) ==
    IF stream[c] = "init" THEN "ok"
    ELSE MaybeChanged(chan[c].version, ~txAlive[c], rxSeen[c])

\* lines 246-256: for_each asks SelectAll for the next element; the ready
\* stream of camera c is polled.  Ok: the value is read and marked seen,
\* filter_map passes a frame on and the closure calls publish_async.
\* Err: the stream ends and SelectAll drops it with its Receiver.
MergerPoll(c) ==
    /\ TakesNext(pcMain)
    /\ lastEvent' = None
    /\ stream[c] \in {"init", "waiting"}
    /\ StreamPoll(c) # "pending"
    /\ IF StreamPoll(c) = "ok"
       THEN LET passed == FilterMap(chan[c].value)
            IN  /\ rxSeen' = [rxSeen EXCEPT ![c] = BorrowAndUpdate(chan[c].version, @)]
                /\ stream' = [stream EXCEPT ![c] = "waiting"]
                /\ IF passed # <<>>
                   THEN /\ inflight' = Some(passed[1])
                        /\ submitted' = Append(submitted, passed[1])
                        /\ pcMain' = "publishing"
                   ELSE UNCHANGED <<inflight, submitted, pcMain>>
                /\ UNCHANGED lastResult
                /\ UNCHANGED rxAlive
       ELSE /\ stream' = [stream EXCEPT ![c] = "ended"]
            /\ rxAlive' = [rxAlive EXCEPT ![c] = FALSE]
            /\ UNCHANGED <<rxSeen, inflight, lastResult, submitted, pcMain>>
    /\ UNCHANGED <<env, config, mainErr, idx, readerVars>>

\* lines 251-254: publish_async returns Ok or Err
PublishReturn(result) ==
    /\ pcMain = "publishing"
    /\ lastEvent' = None
    /\ inflight' = None
    /\ lastResult' = result
    /\ UNCHANGED submitted
    /\ pcMain' = AfterPublish(result)
    /\ UNCHANGED <<env, config, mainErr, idx, readerVars, mergeVars>>

\* lines 256-258: SelectAll has no stream left, for_each ends, main returns Ok
MergerEnd ==
    /\ pcMain = "merge"
    /\ lastEvent' = None
    /\ \A c \in Cams : stream[c] \in {"none", "ended"}
    /\ pcMain' = "done"
    /\ UNCHANGED <<env, config, mainErr, idx, readerVars, mergeVars, sinkVars>>

Next ==
    \/ MainLoadConfig
    \/ MainGetPublisher
    \/ MainSpawnReader
    \/ MainSelectAll
    \/ \E c \in Cams : ReaderLaunch(c)
    \/ \E c \in Cams, event \in Events : ReaderEvent(c, event)
    \/ \E c \in Cams : ReaderIterEnd(c)
    \/ \E c \in Cams : MergerPoll(c)
    \/ \E result \in {"ok", "err"} : PublishReturn(result)
    \/ MergerEnd

Spec == Init /\ [][Next]_vars

\* two cameras, every setting given: the second has no password and an empty
\* stream path
TwoCameras ==
    [username |-> SubSeq(UsernameTokens, 1, 2),
     password |-> SubSeq(PasswordTokens, 1, 2),
     ip |-> SubSeq(IpTokens, 1, 2),
     port |-> SubSeq(PortTokens, 1, 2),
     uri_suffix |-> SubSeq(UriSuffixTokens, 1, 2),
     stream_index |-> SubSeq(StreamIndexTokens, 1, 2)]

InitFair == Init /\ env = TwoCameras

\* what the runtime guarantees: main's task runs on (block_on, line 197); the
\* stream of SelectAll that is ready is polled even if others are ready again
\* and again (its ready queue is first-in first-out); and, as the bus is
\* assumed to do, every publish_async returns.  Nothing is assumed of the
\* decoders: a reader need not get another event
Fairness ==
    /\ WF_vars(MainLoadConfig)
    /\ WF_vars(MainGetPublisher)
    /\ WF_vars(MainSpawnReader)
    /\ WF_vars(MainSelectAll)
    /\ WF_vars(MergerEnd)
    /\ WF_vars(\E result \in {"ok", "err"} : PublishReturn(result))
    /\ \A c \in Cams : SF_vars(MergerPoll(c))

SpecFair == InitFair /\ [][Next]_vars /\ Fairness

\* line 251: publish_async panics instead of returning.  main unwinds and
\* drops select_all with every Receiver; the runtime then waits for the
\* blocking closures, which go on reading their decoders
MainUnwinds ==
    /\ pcMain = "publishing"
    /\ lastEvent' = None
    /\ pcMain' = "panicked"
    /\ inflight' = None
    /\ rxAlive' = [c \in Cams |-> FALSE]
    /\ stream' = [c \in Cams |-> IF stream[c] = "none" THEN "none" ELSE "ended"]
    /\ UNCHANGED <<env, config, mainErr, idx, readerVars, rxSeen, lastResult,
                   submitted>>

NextClosed == Next \/ MainUnwinds

\* the program with a bus client whose publish may panic
SpecClosed == Init /\ [][NextClosed]_vars

\* ------------------------------------------------------------------- claims
SubmittedImages == {submitted[i] : i \in 1..Len(submitted)}

\* the step handed a new element to publish_async
Submits == Len(submitted') = Len(submitted) + 1

\* the step is one turn of a reader's event loop
HandlesEvent == lastEvent' # None

\* camera c has written w and, later, another frame
Overwritten(w) == \E v \in written : v.cam = w.cam /\ v.seq > w.seq

\* C1: a read of a camera's channel yields the frame that camera wrote last,
\* and a frame that was overwritten before it was read is never handed to
\* publish.
C1_LatestValueOverwrite ==
    /\ [][Submits =>
            LET image == submitted'[Len(submitted')]
            IN  /\ image \in written
                /\ \A w \in written : w.cam = image.cam
                                         => w.seq <= image.seq]_vars
    /\ [][\A w \in written :
            (w \notin SubmittedImages /\ Overwritten(w))
            => w \notin {submitted'[i] : i \in 1..Len(submitted')}]_vars

\* C1 witness: v1 and then v2 were written before a read, v2 was published
\* and v1 was not
C1_Witness ==
    \E v1 \in written, v2 \in written :
        /\ v1.cam = v2.cam
        /\ v1.seq < v2.seq
        /\ v2 \in SubmittedImages
        /\ v1 \notin SubmittedImages

\* C2 as stated: when the pipeline has ended, every frame written to a channel
\* is in the merged sequence exactly once.
C2_Original ==
    pcMain = "done" =>
        \A w \in written :
            Cardinality({i \in 1..Len(submitted) : submitted[i] = w}) = 1

\* C2 amended: a written frame is in the merged sequence at most once, every
\* element of the merged sequence is a written frame, and a frame the merger
\* has read from a channel is in the merged sequence.
C2_FanInAtMostOnce ==
    /\ \A i \in 1..Len(submitted), j \in 1..Len(submitted) :
            submitted[i] = submitted[j] => i = j
    /\ SubmittedImages \subseteq written
    /\ \A c \in Cams :
            (stream[c] \in {"waiting", "ended"} /\ chan[c].value # None
             /\ rxSeen[c] = chan[c].version)
            => chan[c].value[1] \in SubmittedImages

\* C2 witness: both cameras have a frame in the merged sequence and one
\* written frame was dropped
C2_Witness ==
    /\ \E a \in SubmittedImages, b \in SubmittedImages : a.cam # b.cam
    /\ \E w \in written : w \notin SubmittedImages /\ Overwritten(w)

\* C3: the frames of one camera are handed to publish in the order in which
\* its decoder emitted them (the ordinals of a camera's published frames
\* increase strictly), and each of them is a frame the reader wrote.
C3_PerCameraOrder ==
    \A i \in 1..Len(submitted), j \in 1..Len(submitted) :
        /\ submitted[i] \in written
        /\ (i < j /\ submitted[i].cam = submitted[j].cam)
           => submitted[i].seq < submitted[j].seq

\* C3 witness: of three frames of one camera the first and the last were
\* published, in that order, and the middle one was dropped
C3_Witness ==
    \E i \in 1..Len(submitted), j \in 1..Len(submitted), w \in written :
        /\ i < j
        /\ submitted[i].cam = w.cam /\ submitted[j].cam = w.cam
        /\ submitted[i].seq < w.seq
        /\ w.seq < submitted[j].seq
        /\ w \notin SubmittedImages

\* C4: when publish returns an error the loop goes back to merging with no
\* stream removed, the failed frame is not submitted again, and the next
\* frame the merger reads is submitted like any other.
C4_PublishFailureLocal ==
    /\ [][(pcMain = "publishing" /\ pcMain' # "publishing" /\ lastResult' = "err")
           => /\ pcMain' = "merge"
              /\ inflight' = None
              /\ submitted' = submitted
              /\ stream' = stream /\ rxAlive' = rxAlive]_vars
    /\ [][Submits => submitted'[Len(submitted')] \notin SubmittedImages]_vars
    /\ [][\A c \in Cams :
            (lastResult = "err" /\ pcMain = "merge" /\ rxSeen'[c] # rxSeen[c]
             /\ chan[c].value # None)
            => /\ submitted' = Append(submitted, chan[c].value[1])
               /\ inflight' = chan[c].value
               /\ pcMain' = "publishing"]_vars

\* C4 witness: the publish of frame K failed and frame K+1 is being published
C4_Witness ==
    /\ lastResult = "err"
    /\ pcMain = "publishing"
    /\ Len(submitted) >= 2
    /\ inflight = Some(submitted[Len(submitted)])
    /\ submitted[Len(submitted)] # submitted[Len(submitted) - 1]

\* C5: a decoded frame whose output index differs from the reader's
\* sub-stream index changes neither the channel nor the set of written
\* frames, so every frame in a channel, written or published carries the
\* configured index.
C5_SubStreamFilter ==
    /\ [][(HandlesEvent /\ lastEvent'[1].kind = "OutputFrame"
            /\ lastEvent'[1].output_index
                 # readerArgs[lastEvent'[1].cam][1].stream_index)
           => /\ chan' = chan
              /\ written' = written
              /\ submitted' = submitted]_vars
    /\ [](\A w \in written \cup SubmittedImages :
            w.output_index = readerArgs[w.cam][1].stream_index)
    /\ [](\A c \in Cams : chan[c].value # None
            => chan[c].value[1].output_index = readerArgs[c][1].stream_index)

\* C5 witness: the last event was a frame of another sub-stream, handled by
\* a reader whose channel holds a frame
C5_Witness ==
    /\ lastEvent # None
    /\ lastEvent[1].kind = "OutputFrame"
    /\ lastEvent[1].output_index # readerArgs[lastEvent[1].cam][1].stream_index
    /\ chan[lastEvent[1].cam].value # None

\* C6: every element submitted to publish is a frame some reader wrote; as
\* long as no reader has written a frame nothing is submitted.
C6_EmptySlotNeverPublished ==
    /\ \A i \in 1..Len(submitted) :
            /\ submitted[i] \in written
            /\ submitted[i] # EmptyImage
    /\ (inflight # None => inflight[1] \in written)
    /\ (written = {} => submitted = <<>>)

\* C6 witness: two cameras, the initial value of both channels was read by
\* the merger, no frame was written and nothing was published
C6_Witness ==
    /\ Len(config.ip) = 2
    /\ \A c \in 1..2 : stream[c] = "waiting" /\ chan[c].value = None
    /\ written = {}
    /\ submitted = <<>>

\* number of entries of a setting; an unset one counts as its default
LenOr1(setting) == IF setting = <<>> THEN 1 ELSE Len(setting)

\* the lengths of the six lists, in the order of the error message
EnvLens ==
    <<LenOr1(env.username), LenOr1(env.password), Len(env.ip), LenOr1(env.port),
      LenOr1(env.uri_suffix), LenOr1(env.stream_index)>>

EnvN == LET lens == EnvLens IN Max({lens[i] : i \in 1..6})

\* the host list is set and every port and index is a number
WellFormed ==
    /\ env.ip # <<>>
    /\ \A i \in 1..Len(env.port) : env.port[i] \in Numerals
    /\ \A i \in 1..Len(env.stream_index) : env.stream_index[i] \in Numerals

BroadcastShape ==
    LET lens == EnvLens
        n == EnvN
    IN  \A i \in 1..6 : lens[i] \in {1, n}

EqualShape ==
    LET lens == EnvLens
    IN  \A i \in 2..6 : lens[i] = lens[1]

NeitherOneNorN ==
    LET lens == EnvLens
        n == EnvN
    IN  \E i \in 1..6 : lens[i] \notin {1, n}

Started == {c \in Cams : readerArgs[c] # None}

\* entry i of a setting: its default when unset, its single entry when it
\* lists one
Pick(setting, default, i) ==
    IF setting = <<>> THEN default
    ELSE IF Len(setting) = 1 THEN setting[1]
    ELSE setting[i]

\* the arguments camera i is to be started with
ExpectedArgs(i) ==
    LET user == Pick(env.username, "", i)
        pass == Pick(env.password, "", i)
        credentials == IF user = "" THEN <<>>
                       ELSE IF pass = "" THEN <<user, "@">>
                       ELSE <<user, ":", pass, "@">>
    IN  [rtsp_url |-> <<"rtsp://">> \o credentials
                      \o <<Pick(env.ip, "", i), ":", Pick(env.port, "554", i), "/",
                           Pick(env.uri_suffix, "", i)>>,
         stream_index |-> NumeralValue(Pick(env.stream_index, "0", i)),
         camera_idx |-> i]

AllStarted ==
    /\ Started = 1..EnvN
    /\ \A i \in 1..EnvN : readerArgs[i][1] = ExpectedArgs(i)

NothingStarted ==
    /\ Started = {}
    /\ \A c \in Cams : pcReader[c] = "none" /\ ~launched[c] /\ ~txAlive[c]
    /\ written = {}
    /\ submitted = <<>>
    /\ inflight = None

\* C8: when a list has a length that is neither 1 nor N, main ends with the
\* configuration error that gives the length of each of the six fields, and
\* no reader is started, no decoder launched and no frame published.
C8_ConfigRejectedBeforeStart ==
    (pcMain # "load" /\ WellFormed /\ NeitherOneNorN)
    => LET lens == EnvLens
       IN  /\ pcMain = "exit_err"
           /\ mainErr = Some([kind |-> "lengths", field |-> "",
                              details |-> <<<<"CAMERA_USERNAME", lens[1]>>,
                                            <<"CAMERA_PASSWORD", lens[2]>>,
                                            <<"CAMERA_IP", lens[3]>>,
                                            <<"CAMERA_PORT", lens[4]>>,
                                            <<"CAMERA_URI_SUFFIX", lens[5]>>,
                                            <<"STREAM_INDEX", lens[6]>>>>,
                              expected |-> EnvN])
           /\ NothingStarted

\* C8 witness: two hosts and three ports, main has returned the error
C8_Witness ==
    /\ pcMain = "exit_err"
    /\ Len(env.ip) = 2 /\ Len(env.port) = 3
    /\ mainErr # None /\ mainErr[1].kind = "lengths"

\* C9: a reader whose decoder fails to launch ends for good without a frame
\* and without a launched decoder; the step changes no other reader, no
\* channel and not main; main does not return while a reader is running.
C9_LaunchFailureIsolated ==
    /\ [][\A c \in Cams :
            (pcReader[c] = "spawned" /\ pcReader'[c] = "panicked")
            => /\ \A d \in Cams \ {c} :
                     pcReader'[d] = pcReader[d] /\ txAlive'[d] = txAlive[d]
               /\ pcMain' = pcMain
               /\ rxAlive' = rxAlive /\ stream' = stream
               /\ chan' = chan]_vars
    /\ [][\A c \in Cams :
            pcReader[c] = "panicked"
            => pcReader'[c] = "panicked" /\ launched'[c] = launched[c]]_vars
    /\ [](\A c \in Cams :
            pcReader[c] = "panicked"
            => /\ ~launched[c]
               /\ chan[c].value = None
               /\ \A w \in written : w.cam # c)
    /\ [](pcMain = "done"
            => \A c \in Cams : pcReader[c] \notin {"spawned", "running"})

\* C9 witness: camera c failed to launch, the merger has removed its stream,
\* and a frame of another camera is being published
C9_Witness ==
    \E c \in Cams :
        /\ pcReader[c] = "panicked"
        /\ stream[c] = "ended"
        /\ pcMain = "publishing"
        /\ inflight # None /\ inflight[1].cam # c
        /\ pcReader[inflight[1].cam] = "running"

\* C10 as stated: a reader that has handled Done handles no later event.
C10_Original ==
    [][\A c \in Cams :
        sawDone[c] => ~(HandlesEvent /\ lastEvent'[1].cam = c)]_vars

\* C10 amended: handling Done changes neither the reader's position nor its
\* channel; events after Done are handled like any other (a frame of the
\* configured sub-stream is written); the loop ends only when the event
\* stream ends or a write finds the channel closed.
C10_DoneOnlyLogged ==
    /\ [][(HandlesEvent /\ lastEvent'[1].kind = "Done")
           => pcReader' = pcReader /\ txAlive' = txAlive /\ chan' = chan]_vars
    /\ [][\A c \in Cams :
            (HandlesEvent /\ sawDone[c] /\ lastEvent'[1].cam = c
             /\ lastEvent'[1].kind = "OutputFrame" /\ rxAlive[c]
             /\ lastEvent'[1].output_index = readerArgs[c][1].stream_index)
            => /\ chan'[c].value # None
               /\ chan'[c].value[1].seq = chan[c].version + 1
               /\ chan'[c].version = chan[c].version + 1
               /\ pcReader'[c] = "running"]_vars
    /\ [][\A c \in Cams :
            (pcReader[c] = "running" /\ pcReader'[c] # "running")
            => \/ ~HandlesEvent
               \/ (lastEvent'[1].kind = "OutputFrame" /\ ~rxAlive[c])]_vars

\* C10 witness: a reader wrote a frame after it had handled Done
C10_Witness ==
    /\ lastEvent # None
    /\ lastEvent[1].kind = "OutputFrame"
    /\ sawDone[lastEvent[1].cam]
    /\ pcReader[lastEvent[1].cam] = "running"
    /\ lastEvent[1].output_index = readerArgs[lastEvent[1].cam][1].stream_index
    /\ chan[lastEvent[1].cam].value # None

\* the step is one turn of camera c's loop on a decoded frame of the
\* sub-stream the reader was configured with
HandlesMatchingFrame(c) ==
    /\ HandlesEvent
    /\ lastEvent'[1].cam = c
    /\ lastEvent'[1].kind = "OutputFrame"
    /\ lastEvent'[1].output_index = readerArgs[c][1].stream_index

\* the step wrote a new frame of camera c into its channel
WritesFrame(c) ==
    /\ chan'[c].version = chan[c].version + 1
    /\ chan'[c].value # None
    /\ chan'[c].value[1].cam = c
    /\ chan'[c].value[1].seq = chan[c].version + 1
    /\ chan'[c].value[1] \in written'
    /\ chan'[c].value[1] \notin written

\* C11: handling a diagnostic, log, progress, output-chunk or explicit error
\* event leaves the reader running and every channel, sender and written
\* frame as it was; a frame of the configured sub-stream that a running
\* reader handles, after whatever events, is written to its channel.
C11_DiagnosticsNonFatal ==
    /\ [][(HandlesEvent /\ lastEvent'[1].kind \in Diagnostics)
           => /\ pcReader[lastEvent'[1].cam] = "running"
              /\ pcReader' = pcReader
              /\ txAlive' = txAlive
              /\ chan' = chan
              /\ written' = written]_vars
    /\ [][\A c \in Cams :
            (HandlesMatchingFrame(c) /\ rxAlive[c])
            => WritesFrame(c) /\ pcReader'[c] = "running"]_vars

\* C11 witness: a reader handled a diagnostic event and, as its next event, a
\* frame of its sub-stream, which its channel now holds
C11_Witness ==
    /\ lastEvent # None
    /\ lastEvent[1].kind = "OutputFrame"
    /\ lastEvent[1].after_diagnostic
    /\ lastEvent[1].output_index = readerArgs[lastEvent[1].cam][1].stream_index
    /\ pcReader[lastEvent[1].cam] = "running"
    /\ chan[lastEvent[1].cam].value # None
    /\ chan[lastEvent[1].cam].value[1].seq = chan[lastEvent[1].cam].version

\* C12: a write that finds the receiver gone ends the reader's loop at that
\* write, leaving the channel as it was, and an exited reader handles no
\* further event; the loss of the receiver by itself stops no reader, and no
\* event other than a frame of the configured sub-stream ends the loop, with
\* the channel closed or not.
C12_ChannelClosedShutdown ==
    /\ [][\A c \in Cams :
            (HandlesMatchingFrame(c) /\ ~rxAlive[c])
            => /\ pcReader'[c] = "exited"
               /\ ~txAlive'[c]
               /\ chan' = chan
               /\ written' = written]_vars
    /\ [][\A c \in Cams :
            pcReader[c] = "exited"
            => /\ pcReader'[c] = "exited"
               /\ ~(HandlesEvent /\ lastEvent'[1].cam = c)]_vars
    /\ [][\A c \in Cams :
            (rxAlive[c] /\ ~rxAlive'[c]) => pcReader'[c] = pcReader[c]]_vars
    /\ [][\A c \in Cams :
            (HandlesEvent /\ lastEvent'[1].cam = c /\ ~HandlesMatchingFrame(c))
            => pcReader'[c] = "running" /\ txAlive'[c]]_vars

\* C12 witness: with its receiver gone a reader handled a diagnostic event
\* and went on, then met a frame of its sub-stream and left the loop, the
\* channel still holding the frame written before
C12_Witness ==
    /\ pcMain = "panicked"
    /\ lastEvent # None
    /\ lastEvent[1].kind = "OutputFrame"
    /\ lastEvent[1].after_diagnostic
    /\ lastEvent[1].output_index = readerArgs[lastEvent[1].cam][1].stream_index
    /\ ~rxAlive[lastEvent[1].cam]
    /\ pcReader[lastEvent[1].cam] = "exited"
    /\ chan[lastEvent[1].cam].value # None

\* C13: a publish call is in flight exactly while main awaits it, a frame is
\* submitted only when none is in flight, and from a state with a publish in
\* flight no step submits a frame, reads a channel or polls a camera's stream.
C13_SerialSink ==
    /\ [](inflight # None <=> pcMain = "publishing")
    /\ [](inflight # None => inflight[1] = submitted[Len(submitted)])
    /\ [][Submits => inflight = None /\ inflight' = Some(submitted'[Len(submitted')])]_vars
    /\ [][inflight # None
           => submitted' = submitted /\ rxSeen' = rxSeen /\ stream' = stream]_vars

\* C13 witness: a publish is in flight while the channel of another camera
\* holds a frame the merger has not read
C13_Witness ==
    /\ pcMain = "publishing"
    /\ inflight # None
    /\ \E c \in Cams :
        /\ c # inflight[1].cam
        /\ stream[c] \in {"init", "waiting"}
        /\ chan[c].value # None
        /\ rxSeen[c] # chan[c].version

\* a decoded frame of the sub-stream camera c's reader was configured with
MatchingFrame(c) ==
    [kind |-> "OutputFrame", output_index |-> readerArgs[c][1].stream_index]

\* C14: whenever a running reader whose receiver exists has a frame of its
\* sub-stream to handle (and the model's event budget is not used up), the
\* turn of the loop that writes it is ready to run, whatever the merger and
\* the sink are doing; the step writes the frame and touches nothing of the
\* merger or the sink.
C14_NoUpstreamBackpressure ==
    /\ [](\A c \in Cams :
            (pcReader[c] = "running" /\ rxAlive[c] /\ nEvents < MaxEvents)
            => ReaderEventReady(c, MatchingFrame(c)))
    /\ [][\A c \in Cams :
            (HandlesMatchingFrame(c) /\ rxAlive[c])
            => /\ WritesFrame(c)
               /\ UNCHANGED <<pcMain, inflight, submitted, rxSeen, stream>>]_vars

\* C14 witness: while a publish was in flight a reader wrote a frame over a
\* frame the merger had not read
C14_Witness ==
    /\ pcMain = "publishing"
    /\ inflight # None
    /\ lastEvent # None
    /\ lastEvent[1].kind = "OutputFrame"
    /\ LET c == lastEvent[1].cam
       IN  /\ pcReader[c] = "running"
           /\ chan[c].value # None
           /\ chan[c].value[1].seq = chan[c].version
           /\ lastEvent[1].output_index = readerArgs[c][1].stream_index
           /\ chan[c].version >= 2
           /\ rxSeen[c] < chan[c].version - 1

\* line 38: the entity path camera c's reader computed when it was started
ReaderEntityPath(c) == FormatEntityPath(readerArgs[c][1].rtsp_url)

\* C16: no frame is in the sequence handed to publish twice, after a publish
\* that succeeded or one that failed; every frame written or handed to
\* publish carries the entity path its reader computed at its start, so all
\* frames of one reader carry the same path.
C16_AtMostOnceStablePath ==
    /\ \A i \in 1..Len(submitted), j \in 1..Len(submitted) :
            submitted[i] = submitted[j] => i = j
    /\ \A w \in written \cup SubmittedImages :
            /\ readerArgs[w.cam] # None
            /\ w.entity_path = ReaderEntityPath(w.cam)
    /\ \A v \in written \cup SubmittedImages, w \in written \cup SubmittedImages :
            v.cam = w.cam => v.entity_path = w.entity_path

\* C16 witness: two frames of one reader, whose URL carries credentials, were
\* handed to publish, the second after the publish of the first had failed;
\* both carry the path built from the camera's host and stream path
C16_Witness ==
    /\ Len(submitted) = 2
    /\ inflight # None
    /\ lastResult = "err"
    /\ submitted[1].cam = submitted[2].cam
    /\ submitted[1].seq < submitted[2].seq
    /\ IndexOf(readerArgs[submitted[1].cam][1].rtsp_url, "@", 1) # 0
    /\ submitted[2].entity_path =
            <<"/camera/", config.ip[submitted[2].cam], "/",
              config.uri_suffix[submitted[2].cam]>>

\* C18: a reader that is started and has not terminated has its receiver;
\* a receiver is dropped only when its sender is gone; so every frame of the
\* configured sub-stream that a reader handles is written, and no turn of
\* the loop on a frame ends the reader.
C18_WriteNeverFails ==
    /\ [](\A c \in Cams :
            pcReader[c] \in {"spawned", "running"} => rxAlive[c] /\ txAlive[c])
    /\ [][\A c \in Cams : (rxAlive[c] /\ ~rxAlive'[c]) => ~txAlive[c]]_vars
    /\ [][\A c \in Cams :
            HandlesMatchingFrame(c) => rxAlive[c] /\ WritesFrame(c)]_vars
    /\ [][\A c \in Cams :
            (HandlesEvent /\ lastEvent'[1].cam = c) => pcReader'[c] = "running"]_vars

\* C18 witness: a reader wrote a frame after the merger had dropped the
\* receiver of another camera, whose reader had terminated
C18_Witness ==
    /\ lastEvent # None
    /\ lastEvent[1].kind = "OutputFrame"
    /\ LET c == lastEvent[1].cam
       IN  /\ lastEvent[1].output_index = readerArgs[c][1].stream_index
           /\ rxAlive[c]
           /\ chan[c].value # None
           /\ chan[c].value[1].seq = chan[c].version
           /\ \E d \in Cams \ {c} :
                /\ pcReader[d] \in {"exited", "panicked"}
                /\ stream[d] = "ended"
                /\ ~rxAlive[d]

\* the channel of camera c holds a frame the merger has not observed
Unobserved(c) ==
    /\ pcMain \in {"merge", "publishing"}
    /\ stream[c] \in {"init", "waiting"}
    /\ chan[c].value # None
    /\ rxSeen[c] # chan[c].version

\* the merger has observed the frame camera c's channel holds and handed it
\* to publish
ObservedAndSubmitted(c) ==
    /\ chan[c].value # None
    /\ rxSeen[c] = chan[c].version
    /\ chan[c].value[1] \in SubmittedImages

Readers == 1..Len(config.ip)

\* a reader that has left its closure: by the end of its loop or by the panic
\* of a failed launch
Terminated(c) == pcReader[c] \in {"exited", "panicked"}

\* main is past the load, every reader it has to start has terminated
AllTerminated ==
    /\ pcMain \in {"spawn", "merge", "publishing"}
    /\ \A c \in Readers : Terminated(c)

\* C17: main returns Ok only when every reader has terminated and no publish
\* is in flight; while a reader is started and not terminated main has not
\* returned; a terminated reader stays terminated and its decoder is not
\* launched again; and, with every publish returning, once every reader has
\* terminated main returns Ok.
C17_PipelineTermination ==
    /\ [](pcMain = "done"
           => (\A c \in Readers : Terminated(c)) /\ inflight = None
              /\ mainErr = None)
    /\ [](\A c \in Cams : pcReader[c] \in {"spawned", "running"}
                             => pcMain # "done")
    /\ [][\A c \in Cams :
            Terminated(c) => pcReader'[c] = pcReader[c]
                             /\ launched'[c] = launched[c]
                             /\ ~txAlive'[c]]_vars
    /\ (AllTerminated ~> pcMain = "done")

\* C17 witness: main returned Ok after one reader's launch had failed and the
\* other's event stream had ended, a frame having been published
C17_Witness ==
    /\ pcMain = "done"
    /\ Len(config.ip) = 2
    /\ \E c \in Readers, d \in Readers :
        /\ pcReader[c] = "panicked"
        /\ pcReader[d] = "exited" /\ launched[d]
    /\ Len(submitted) >= 1
    /\ lastResult # "none"

\* camera c's reader has terminated and dropped its sender while its channel
\* holds a frame the merger has not observed
LastFramePending(c) ==
    /\ pcMain \in {"spawn", "merge", "publishing"}
    /\ Terminated(c)
    /\ ~txAlive[c]
    /\ chan[c].value # None
    /\ rxSeen[c] # chan[c].version

\* C19: a camera's stream is removed from the merge only when the merger has
\* observed what its channel holds, a frame it holds having been handed to
\* publish; and, with every publish returning, a frame left unobserved by a
\* reader that has terminated leads to that frame handed to publish while the
\* camera's stream is still in the merge.
C19_LastFrameSurvives ==
    /\ [][\A c \in Cams :
            (stream[c] # "ended" /\ stream'[c] = "ended")
            => /\ ~txAlive[c]
               /\ rxSeen[c] = chan[c].version
               /\ chan[c].value # None
                    => chan[c].value[1] \in SubmittedImages]_vars
    /\ \A c \in Cams :
            LastFramePending(c)
            ~> (ObservedAndSubmitted(c) /\ stream[c] = "waiting")

\* C19 witness: a reader wrote a second frame and terminated while the
\* publish of its first frame was in flight: its channel is closed and holds
\* a frame the merger has not observed
C19_Witness ==
    \E c \in Cams :
        /\ LastFramePending(c)
        /\ pcReader[c] = "exited"
        /\ pcMain = "publishing"
        /\ inflight # None
        /\ inflight[1].cam = c
        /\ inflight[1].seq < chan[c].version
        /\ stream[c] = "waiting"

====
